---- MODULE Spec2Model ----
(***************************************************************************)
(* PlaceRank: dataset acquisition and indexing (placerank/dataset.py), the *)
(* retrieval-model scaffold (placerank/models.py) and the terminal-UI      *)
(* presenter (placerank/tui/presenter.py).                                 *)
(*                                                                         *)
(* Texts are sequences of one-character strings.  A Python call is         *)
(* modelled by its outcome record: kind = "ok" for a normal return, the    *)
(* exception's class name otherwise.                                       *)
(***************************************************************************)
EXTENDS Naturals, Sequences, FiniteSets, TLC

VARIABLES
    fs,               \* the disk: path -> [kind, data]
    downloaded,       \* history: path -> the download last written through to it
    ret,              \* the last call into placerank.dataset and its outcome
    hook,             \* the last call of the tolerant-retrieval hook and its outcome
    view,             \* a DocumentView under the presenter's line-break cleaning
    instance,         \* Presenter.__instance
    _model,           \* the instance's _model
    _local_dataset,   \* the instance's _local_dataset
    observers,        \* the event broker: topic -> the callbacks bound to it
    handles,          \* history: the Presenter(...) calls and what each returned
    last,             \* the last publish by the UI and what it caused
    index,            \* the index directory and its committed documents
    run               \* the populate_index run in progress

datasetVars == <<fs, downloaded, ret>>
presenterVars == <<instance, _model, _local_dataset, observers, handles, last>>
indexVars == <<index, run>>

vars == <<datasetVars, hook, view, presenterVars, indexVars>>

----------------------------------------------------------------------------
(* Bounds of the model *)

\* rows of a dataset file on disk, header excluded
MaxRows == 2
\* rows of a dataset text a server sends, header excluded
MaxRemoteRows == 1
\* pieces a DocumentView's text field is put together from
MaxPieces == 6
\* applications of the line-break cleaning to one DocumentView
MaxCleanings == 2
\* characters of a query handed to the tolerant-retrieval hook
MaxQueryLen == 4
\* Presenter(...) calls in one process
MaxConstructions == 3
\* publishes by the UI
MaxPublishes == 2
\* populate_index runs
MaxRuns == 2

----------------------------------------------------------------------------
(* Python values *)

NoneVal == "None"

\* Python truthiness of an optional string argument: None and "" are falsy
Truthy(v) == v # NoneVal /\ v # ""

RECURSIVE Concat(_)
Concat(ss) == IF ss = <<>> THEN <<>> ELSE Head(ss) \o Concat(Tail(ss))

\* the pieces of s between occurrences of sep (str.split(sep))
RECURSIVE SplitOn(_, _)
SplitOn(s, sep) ==
    IF \A i \in 1..Len(s) : s[i] # sep
    THEN <<s>>
    ELSE LET k == CHOOSE i \in 1..Len(s) :
                      s[i] = sep /\ \A j \in 1..(i - 1) : s[j] # sep
         IN  <<SubSeq(s, 1, k - 1)>> \o SplitOn(SubSeq(s, k + 1, Len(s)), sep)

\* the lines of s, each keeping its "\n" (iteration over a file object)
RECURSIVE SplitLines(_)
SplitLines(s) ==
    IF s = <<>> THEN <<>>
    ELSE IF \A i \in 1..Len(s) : s[i] # "\n"
    THEN <<s>>
    ELSE LET k == CHOOSE i \in 1..Len(s) :
                      s[i] = "\n" /\ \A j \in 1..(i - 1) : s[j] # "\n"
         IN  <<SubSeq(s, 1, k)>> \o SplitLines(SubSeq(s, k + 1, Len(s)))

\* text-mode read with newline=None: "\r\n" and a lone "\r" become "\n"
RECURSIVE UniversalNewlines(_)
UniversalNewlines(s) ==
    IF s = <<>> THEN <<>>
    ELSE IF Head(s) = "\r"
    THEN IF Len(s) >= 2 /\ s[2] = "\n"
         THEN <<"\n">> \o UniversalNewlines(SubSeq(s, 3, Len(s)))
         ELSE <<"\n">> \o UniversalNewlines(Tail(s))
    ELSE <<Head(s)>> \o UniversalNewlines(Tail(s))

----------------------------------------------------------------------------
(* io.StringIO: a text buffer with a position *)

StringIO(text) == [buf |-> text, pos |-> 0]

\* write at the position, overwriting what is there and extending the buffer
StringIO_write(sio, s) ==
    [buf |-> SubSeq(sio.buf, 1, sio.pos) \o s
                 \o SubSeq(sio.buf, sio.pos + Len(s) + 1, Len(sio.buf)),
     pos |-> sio.pos + Len(s)]

StringIO_seek0(sio) == [sio EXCEPT !.pos = 0]

RECURSIVE WriteAll(_, _)
WriteAll(sio, lines) ==
    IF lines = <<>> THEN sio
    ELSE WriteAll(StringIO_write(sio, Head(lines)), Tail(lines))

----------------------------------------------------------------------------
(* Dataset texts: comma-separated, header row first *)

IdCol == <<"i", "d">>
NameCol == <<"n">>
Header == <<IdCol, NameCol>>

Ids == {<<"1">>, <<"2">>}
Names == {<<"a">>, <<"b">>}
\* rows a dataset file is made of: two share an id, two share a name
Rows == {<<i, n>> : i \in Ids, n \in Names} \ {<<<<"2">>, <<"b">>>>}
\* rows a server's dataset is made of
RemoteRows == {<<<<"1">>, <<"a">>>>, <<<<"2">>, <<"b">>>>}

RECURSIVE JoinWith(_, _)
JoinWith(cells, sep) ==
    IF cells = <<>> THEN <<>>
    ELSE IF Len(cells) = 1 THEN cells[1]
    ELSE cells[1] \o <<sep>> \o JoinWith(Tail(cells), sep)

RECURSIVE RenderLines(_)
RenderLines(rows) ==
    IF rows = <<>> THEN <<>>
    ELSE JoinWith(Head(rows), ",") \o <<"\n">> \o RenderLines(Tail(rows))

RowSeqs(rows, n) == UNION {[1..k -> rows] : k \in 0..n}

CrLfText ==
    <<"i", "d", ",", "n", "\r", "\n", "1", ",", "a", "\r", "\n">>

\* well-formed dataset texts, and one with "\r\n" line ends
DatasetTexts(rows, n) ==
    {RenderLines(<<Header>> \o rs) : rs \in RowSeqs(rows, n)} \cup {CrLfText}

----------------------------------------------------------------------------
(* The disk *)

Paths == {"f1", "f2", "dir"}

Absent == [kind |-> "absent", data |-> <<>>]
Directory == [kind |-> "dir", data |-> <<>>]
File(text) == [kind |-> "file", data |-> text]

\* os.path.isfile
isfile(disk, path) == path \in DOMAIN disk /\ disk[path].kind = "file"

\* with open(path, 'w') as f: print(text, file = f)
\* print writes its argument and then its end, "\n"
PrintEnd == <<"\n">>

print_to_file(disk, path, text) ==
    IF path \notin DOMAIN disk
    THEN [kind |-> "FileNotFoundError", fs |-> disk]
    ELSE IF disk[path].kind = "dir"
    THEN [kind |-> "IsADirectoryError", fs |-> disk]
    ELSE [kind |-> "ok", fs |-> [disk EXCEPT ![path] = File(text \o PrintEnd)]]

\* with open(path, 'r') as f: f.read()
read_file(disk, path) ==
    IF path \notin DOMAIN disk \/ disk[path].kind = "absent"
    THEN [kind |-> "FileNotFoundError", data |-> <<>>]
    ELSE IF disk[path].kind = "dir"
    THEN [kind |-> "IsADirectoryError", data |-> <<>>]
    ELSE [kind |-> "ok", data |-> UniversalNewlines(disk[path].data)]

----------------------------------------------------------------------------
(* The remote source: requests.get(url) answers with a Response *)

Gzip(text) == [gzip |-> TRUE, data |-> text]
Plain(text) == [gzip |-> FALSE, data |-> text]

\* requests.Response: its attributes are the fields; ok is status_code < 400
Response(code, body) ==
    [status_code |-> code, ok |-> code < 400, content |-> body]

Responses ==
    {Response(200, Gzip(t)) : t \in DatasetTexts(RemoteRows, MaxRemoteRows)}
        \cup {Response(200, Plain(<<"x">>))}
        \cup {Response(c, Plain(<<>>)) : c \in {404, 503}}

\* gzip.GzipFile over the body, iterated line by line
gunzip_lines(body) ==
    IF body.gzip
    THEN [kind |-> "ok", lines |-> SplitLines(body.data)]
    ELSE [kind |-> "BadGzipFile", lines |-> <<>>]

----------------------------------------------------------------------------
(* placerank/dataset.py *)

\* The outcome of a call: kind, the status codes an error reports, the value
\* returned, the passed storage object afterwards, the disk afterwards and
\* the number of GET requests issued.
Outcome(kind, code, value, storage, disk, gets) ==
    [kind |-> kind, code |-> code, value |-> value, storage |-> storage,
     fs |-> disk, gets |-> gets]

download_dataset(url, storage, disk, r) ==
    IF ~r.ok
    THEN IF "status" \in DOMAIN r
         THEN Outcome("ConnectionError", {r.status}, storage, storage, disk, 1)
         ELSE Outcome("AttributeError", {}, storage, storage, disk, 1)
    ELSE LET gz == gunzip_lines(r.content)
         IN  IF gz.kind # "ok"
             THEN Outcome(gz.kind, {}, storage, storage, disk, 1)
             ELSE LET filled == StringIO_seek0(WriteAll(storage, gz.lines))
                  IN  Outcome("ok", {}, filled, filled, disk, 1)

get_dataset_no_isfile(local_file, remote_url, storage, disk, r) ==
    IF ~Truthy(remote_url) /\ ~Truthy(local_file)
    THEN Outcome("RuntimeError", {}, storage, storage, disk, 0)
    ELSE IF Truthy(remote_url)
    THEN LET d == download_dataset(remote_url, storage, disk, r)
         IN  IF d.kind # "ok" \/ ~Truthy(local_file)
             THEN d
             ELSE LET w == print_to_file(disk, local_file, d.value.buf)
                  IN  Outcome(w.kind, {}, d.value, d.storage, w.fs, d.gets)
    ELSE LET f == read_file(disk, local_file)
         IN  Outcome(f.kind, {}, StringIO(f.data), storage, disk, 0)

get_dataset(local_file, remote_url, storage, disk, r) ==
    IF ~Truthy(remote_url) /\ (~Truthy(local_file) \/ ~isfile(disk, local_file))
    THEN Outcome("RuntimeError", {}, storage, storage, disk, 0)
    ELSE IF Truthy(remote_url)
    THEN LET d == download_dataset(remote_url, storage, disk, r)
         IN  IF d.kind # "ok" \/ ~Truthy(local_file)
             THEN d
             ELSE LET w == print_to_file(disk, local_file, d.value.buf)
                  IN  Outcome(w.kind, {}, d.value, d.storage, w.fs, d.gets)
    ELSE LET f == read_file(disk, local_file)
         IN  Outcome(f.kind, {}, StringIO(f.data), storage, disk, 0)

\* csv.reader on one line: the terminator is dropped, the rest is split on ","
\* and an empty line is the empty row
csv_row(line) ==
    LET noLf == IF line # <<>> /\ line[Len(line)] = "\n"
                THEN SubSeq(line, 1, Len(line) - 1) ELSE line
        body == IF noLf # <<>> /\ noLf[Len(noLf)] = "\r"
                THEN SubSeq(noLf, 1, Len(noLf) - 1) ELSE noLf
    IN  IF body = <<>> THEN <<>> ELSE SplitOn(body, ",")

\* a cell the row is too short for (restval = None)
MissingCell == <<NoneVal>>

\* dict(zip(fieldnames, row)): a later column of the same name wins
RowDict(fieldnames, row) ==
    [f \in {fieldnames[i] : i \in 1..Len(fieldnames)} |->
        LET k == CHOOSE i \in 1..Len(fieldnames) :
                     fieldnames[i] = f
                     /\ \A j \in (i + 1)..Len(fieldnames) : fieldnames[j] # f
        IN  IF k <= Len(row) THEN row[k] ELSE MissingCell]

\* csv.DictReader: empty rows are skipped, the first row left names the
\* fields, every other one is a record
DictReader(lines) ==
    LET rows == SelectSeq([i \in 1..Len(lines) |-> csv_row(lines[i])],
                          LAMBDA r : r # <<>>)
    IN  IF rows = <<>> THEN <<>>
        ELSE [i \in 1..(Len(rows) - 1) |-> RowDict(rows[1], rows[i + 1])]

list_pop_first(xs) == xs[1]

\* list.pop(): the last element
list_pop(xs) == xs[Len(xs)]

\* the fields of a DocumentView, in order
DocumentViewFields == <<IdCol, NameCol>>

DocumentView_from_record(record) ==
    IF \E i \in 1..Len(DocumentViewFields) :
           DocumentViewFields[i] \notin DOMAIN record
    THEN [kind |-> "MissingData", value |-> <<>>]
    ELSE [kind |-> "ok",
          value |-> [i \in 1..Len(DocumentViewFields) |->
                        record[DocumentViewFields[i]]]]

load_page(local_dataset, id, disk) ==
    LET f == read_file(disk, local_dataset)
    IN  IF f.kind # "ok" THEN [kind |-> f.kind, value |-> <<>>]
        ELSE LET records == DictReader(SplitLines(f.data))
             IN  IF \E i \in 1..Len(records) : IdCol \notin DOMAIN records[i]
                 THEN [kind |-> "KeyError", value |-> <<>>]
                 ELSE LET found == SelectSeq(records, LAMBDA r : r[IdCol] = id)
                      IN  IF found = <<>>
                          THEN [kind |-> "IndexError", value |-> <<>>]
                          ELSE DocumentView_from_record(list_pop(found))

----------------------------------------------------------------------------
(* placerank/tui/presenter.py: the line-break cleaning *)

\* \s
IsSpace(c) == c \in {" ", "\n", "\t", "\r"}

\* \s* from position i: the position after the longest run of whitespace
RECURSIVE SkipSpace(_, _)
SkipSpace(s, i) ==
    IF i <= Len(s) /\ IsSpace(s[i]) THEN SkipSpace(s, i + 1) ELSE i

\* re.compile(r'\s*<\s*br\s*/?>\s*') matched at position i: the position
\* after the match, or 0 when there is none.  No star of the pattern is
\* followed by something whitespace can match, and "/" cannot stand for ">",
\* so the greedy match is the only one.
line_break_match(s, i) ==
    LET lt == SkipSpace(s, i)
    IN  IF ~(lt <= Len(s) /\ s[lt] = "<") THEN 0
        ELSE LET b == SkipSpace(s, lt + 1)
             IN  IF ~(b + 1 <= Len(s) /\ s[b] = "b" /\ s[b + 1] = "r") THEN 0
                 ELSE LET sl == SkipSpace(s, b + 2)
                          gt == IF sl <= Len(s) /\ s[sl] = "/"
                                THEN sl + 1 ELSE sl
                      IN  IF gt <= Len(s) /\ s[gt] = ">"
                          THEN SkipSpace(s, gt + 1)
                          ELSE 0

\* pattern.sub(repl, s) from position i with count = 1
re_sub_once(repl, s, i) ==
    IF \A k \in i..Len(s) : line_break_match(s, k) = 0
    THEN SubSeq(s, i, Len(s))
    ELSE LET k == CHOOSE k \in i..Len(s) :
                      /\ line_break_match(s, k) # 0
                      /\ \A j \in i..(k - 1) : line_break_match(s, j) = 0
         IN  SubSeq(s, i, k - 1) \o repl
                 \o SubSeq(s, line_break_match(s, k), Len(s))

\* pattern.sub(repl, s) from position i: every leftmost match that does not
\* overlap an earlier one is replaced, the rest is copied
RECURSIVE re_sub(_, _, _)
re_sub(repl, s, i) ==
    IF i > Len(s) THEN <<>>
    ELSE IF line_break_match(s, i) # 0
    THEN repl \o re_sub(repl, s, line_break_match(s, i))
    ELSE <<s[i]>> \o re_sub(repl, s, i + 1)

\* type(field) is str: a text is a sequence of single characters, any other
\* value (None) is not
IsStr(field) == field # MissingCell

\* DocumentView(*(regex.sub('\n', field) if type(field) is str else field ...))
cleaned_page(page) ==
    [i \in 1..Len(page) |->
        IF IsStr(page[i]) THEN re_sub(<<"\n">>, page[i], 1) ELSE page[i]]

\* the pieces text fields are put together from
Pieces == {<<"<">>, <<"b", "r">>, <<"/">>, <<">">>, <<" ">>}

TextsOf(n) == {Concat(ps) : ps \in UNION {[1..k -> Pieces] : k \in 0..n}}


----------------------------------------------------------------------------
(* placerank/models.py *)

\* def expand(query: str) -> str: the function's positional parameters.  It
\* is defined in a class body without a self parameter.
expand_parameters == <<"query">>

\* a call of the function with positional arguments args
TolerantRetrievalMock_expand(args) ==
    IF Len(args) # Len(expand_parameters)
    THEN [kind |-> "TypeError", value |-> <<>>]
    ELSE [kind |-> "ok", value |-> args[1]]

\* obj.f(*args): the bound method passes obj as the first positional argument
bound_method_args(obj, args) == <<obj>> \o args

\* a TolerantRetrievalMock(), as an IRModel holds it
MockObject == <<"TolerantRetrievalMock()">>

\* IRModel.search is abstract: the result is only known by the model and the
\* query it came from
IRModel_search(model, query) == [model |-> model, query |-> query]

----------------------------------------------------------------------------
(* placerank/tui/events.py and placerank/tui/presenter.py *)

SEARCH_QUERY_UPDATE == "SEARCH_QUERY_UPDATE"
SEARCH_RESULTS_UPDATE == "SEARCH_RESULTS_UPDATE"
OPEN_RESULT_REQUEST == "OPEN_RESULT_REQUEST"
OPEN_RESULT == "OPEN_RESULT"

Events ==
    {SEARCH_QUERY_UPDATE, SEARCH_RESULTS_UPDATE, OPEN_RESULT_REQUEST, OPEN_RESULT}

NoObservers == [t \in Events |-> <<>>]

\* Observer(callback, topics): binds callback to every topic of topics, for
\* the life of the process
Observer(registry, callback, topics) ==
    [t \in Events |->
        IF t \in topics THEN Append(registry[t], callback) ELSE registry[t]]

\* Presenter.__new__: a new object only while __instance is falsy.  An
\* object is the singleton set of its identity, None is the empty set.
Presenter_new(inst, fresh) == IF inst = {} THEN {fresh} ELSE inst

\* what a publish has caused so far: handler runs, calls of the model's
\* search, events published in turn, and the exception raised, if any
NoEffects == [runs |-> 0, searches |-> <<>>, published |-> <<>>, raised |-> "none"]

search_query_update(query, acc) ==
    [acc EXCEPT !.runs = @ + 1,
                !.searches = Append(@, [model |-> _model, query |-> query]),
                !.published = Append(@, [topic |-> SEARCH_RESULTS_UPDATE,
                                         payload |-> IRModel_search(_model, query)])]

open_result_request_swallow(doc_id, acc) ==
    LET page == load_page(_local_dataset, doc_id, fs)
    IN  IF page.kind # "ok"
        THEN [acc EXCEPT !.runs = @ + 1]
        ELSE [acc EXCEPT !.runs = @ + 1,
                         !.published = Append(@, [topic |-> OPEN_RESULT,
                                                  payload |-> cleaned_page(page.value)])]

\* open_result_request: an exception of load_page is not caught
open_result_request(doc_id, acc) ==
    LET page == load_page(_local_dataset, doc_id, fs)
    IN  IF page.kind # "ok"
        THEN [acc EXCEPT !.runs = @ + 1, !.raised = page.kind]
        ELSE [acc EXCEPT !.runs = @ + 1,
                         !.published = Append(@, [topic |-> OPEN_RESULT,
                                                  payload |-> cleaned_page(page.value)])]

\* topic.notify(payload): the bound callbacks run in registration order, in
\* the publisher's call; an exception of one ends the publish
RECURSIVE Event_notify(_, _, _)
Event_notify(callbacks, payload, acc) ==
    IF callbacks = <<>> \/ acc.raised # "none" THEN acc
    ELSE Event_notify(Tail(callbacks), payload,
                      IF Head(callbacks).func = "search_query_update"
                      THEN search_query_update(payload, acc)
                      ELSE open_result_request(payload, acc))

----------------------------------------------------------------------------
(* placerank/dataset.py: the index *)

\* schema.get_document_logic_view(row): the fields of the row's document
get_document_logic_view(row) == <<row[IdCol], row[NameCol]>>

\* the documents run n adds for the rows, one per row, in order
DocsOf(n, rows) ==
    [k \in 1..Len(rows) |-> [run |-> n, fields |-> get_document_logic_view(rows[k])]]

\* a document an earlier run committed
OldDoc == [run |-> 0, fields |-> <<<<"9">>, <<"o">>>>]

create_index_keep(ix) == [dir |-> TRUE, docs |-> ix.docs]

\* create_index: the directory is made when missing, and create_in starts
\* a new, empty index in it
create_index(ix) == [dir |-> TRUE, docs |-> <<>>]

\* leaving "with ix.writer() as writer": commit, or cancel on an exception
writer_exit(docs, pending, raised) == IF raised THEN docs ELSE docs \o pending

----------------------------------------------------------------------------
(* The parts of the state a specification leaves alone *)

EmptyDisk == [p \in Paths |-> IF p = "dir" THEN Directory ELSE Absent]

NoCall == [op |-> "none"]

NoDownload == [p \in Paths |-> {}]

NoPublish ==
    [seq |-> 0, topic |-> "none", payload |-> <<>>, runs |-> 0,
     searches |-> <<>>, published |-> <<>>, raised |-> "none"]

NoRun ==
    [pc |-> "idle", n |-> 0, local_file |-> NoneVal, remote_url |-> NoneVal,
     rows |-> <<>>, k |-> 0, pending |-> <<>>, acquired |-> FALSE,
     failedAt |-> "none", prior |-> 0]

DatasetIdle == fs = EmptyDisk /\ downloaded = NoDownload /\ ret = NoCall

PresenterIdle ==
    /\ instance = {}
    /\ _model = NoneVal
    /\ _local_dataset = NoneVal
    /\ observers = NoObservers
    /\ handles = <<>>
    /\ last = NoPublish

IndexIdle == index = [dir |-> FALSE, docs |-> <<>>] /\ run = NoRun

----------------------------------------------------------------------------
(* Calls into placerank.dataset *)

LocalFileArgs == {NoneVal, "", "f1", "dir"}
Url == "http://host/listings.csv.gz"
RemoteUrlArgs == {NoneVal, "", Url}

\* the answers a GET of url may get; no request is made for a falsy url
ResponsesFor(url) ==
    IF Truthy(url) THEN Responses ELSE {CHOOSE r \in Responses : TRUE}

\* the storage a caller passes: a fresh buffer, or one already written to
StorageArgs == {StringIO(<<>>), [buf |-> <<"z">>, pos |-> 1]}

LookupIds == Ids \cup {<<"3">>}

\* the history of write-throughs after a get_dataset call with outcome out
DownloadedAfter(local_file, remote_url, out) ==
    IF out.kind = "ok" /\ Truthy(remote_url) /\ Truthy(local_file)
    THEN [downloaded EXCEPT ![local_file] = {out.value.buf}]
    ELSE downloaded

DownloadDataset(url, storage, r) ==
    /\ ret' = [op |-> "download_dataset", url |-> url, storage |-> storage,
               resp |-> r, out |-> download_dataset(url, storage, fs, r)]
    /\ UNCHANGED <<fs, downloaded, hook, view, presenterVars, indexVars>>

GetDataset(local_file, remote_url, storage, r) ==
    LET out == get_dataset(local_file, remote_url, storage, fs, r)
    IN  /\ ret' = [op |-> "get_dataset", local_file |-> local_file,
                   remote_url |-> remote_url, storage |-> storage,
                   resp |-> IF out.gets > 0 THEN {r} ELSE {}, out |-> out]
        /\ fs' = out.fs
        /\ downloaded' = DownloadedAfter(local_file, remote_url, out)
        /\ UNCHANGED <<hook, view, presenterVars, indexVars>>

LoadPage(local_dataset, id) ==
    /\ ret' = [op |-> "load_page", local_dataset |-> local_dataset, id |-> id,
               out |-> load_page(local_dataset, id, fs)]
    /\ UNCHANGED <<fs, downloaded, hook, view, presenterVars, indexVars>>

\* the disks a run may start from: the cache file missing or holding a dataset
StartDisks ==
    {[EmptyDisk EXCEPT !["f1"] = n] :
        n \in {Absent} \cup {File(t) : t \in DatasetTexts(Rows, MaxRows)}}

InitDataset ==
    /\ fs \in StartDisks
    /\ downloaded = NoDownload
    /\ ret = NoCall
    /\ hook = NoCall
    /\ view = NoCall
    /\ PresenterIdle
    /\ IndexIdle

NextDataset ==
    \/ \E s \in StorageArgs, r \in Responses : DownloadDataset(Url, s, r)
    \/ \E l \in LocalFileArgs, u \in RemoteUrlArgs, s \in StorageArgs :
           \E r \in ResponsesFor(u) : GetDataset(l, u, s, r)
    \/ \E p \in Paths, id \in LookupIds : LoadPage(p, id)

SpecDataset == InitDataset /\ [][NextDataset]_vars

----------------------------------------------------------------------------
(* The line-break cleaning applied to a DocumentView, again and again *)

CleanView ==
    /\ view.n < MaxCleanings
    /\ view' = [view EXCEPT !.page = cleaned_page(view.page),
                            !.prev = view.page,
                            !.n = view.n + 1]
    /\ UNCHANGED <<datasetVars, hook, presenterVars, indexVars>>

InitClean ==
    /\ \E t \in TextsOf(MaxPieces) :
           view = [orig |-> <<t, MissingCell>>, page |-> <<t, MissingCell>>,
                   prev |-> <<t, MissingCell>>, n |-> 0]
    /\ DatasetIdle
    /\ hook = NoCall
    /\ PresenterIdle
    /\ IndexIdle

NextClean == CleanView

SpecClean == InitClean /\ [][NextClean]_vars

----------------------------------------------------------------------------
(* Calls of the tolerant-retrieval hook *)

QueryChars == {"a", "b", " "}

Queries(n) == UNION {[1..k -> QueryChars] : k \in 0..n}

\* service.expand(q) on the object
ExpandOnObject(q) ==
    /\ hook' = [op |-> "expand", on |-> "object", query |-> q,
                out |-> TolerantRetrievalMock_expand(
                            bound_method_args(MockObject, <<q>>))]
    /\ UNCHANGED <<datasetVars, view, presenterVars, indexVars>>

\* TolerantRetrievalMock.expand(q) on the class
ExpandOnClass(q) ==
    /\ hook' = [op |-> "expand", on |-> "class", query |-> q,
                out |-> TolerantRetrievalMock_expand(<<q>>)]
    /\ UNCHANGED <<datasetVars, view, presenterVars, indexVars>>

InitModels ==
    /\ hook = NoCall
    /\ DatasetIdle
    /\ view = NoCall
    /\ PresenterIdle
    /\ IndexIdle

NextModels ==
    \/ \E q \in Queries(MaxQueryLen) : ExpandOnObject(q)
    \/ \E q \in Queries(MaxQueryLen) : ExpandOnClass(q)

SpecModels == InitModels /\ [][NextModels]_vars

----------------------------------------------------------------------------
(* The presenter and the UI's publishes *)

Models == {"m1", "m2"}
DatasetArgs == {"f1", "f2"}
QueryViews == {<<"a">>, <<"b">>}

\* the dataset files the presenter is pointed at
PresenterDisk ==
    [EmptyDisk EXCEPT
        !["f1"] = File(RenderLines(<<Header,
                                     <<<<"1">>, <<"a", "<", "b", "r", ">", "b">>>>,
                                     <<<<"2">>, <<"a">>>>>>)),
        !["f2"] = File(RenderLines(<<Header, <<<<"2">>, <<"b">>>>>>))]

\* Presenter(model, local_dataset): __new__, then __init__ on what it returned
Presenter(model, local_dataset) ==
    /\ Len(handles) < MaxConstructions
    /\ LET self == Presenter_new(instance, Len(handles) + 1)
       IN  /\ instance' = self
           /\ handles' = Append(handles, [model |-> model,
                                          local_dataset |-> local_dataset,
                                          handle |-> self])
           /\ observers' =
                  Observer(Observer(observers,
                                    [self |-> self, func |-> "search_query_update"],
                                    {SEARCH_QUERY_UPDATE}),
                           [self |-> self, func |-> "open_result_request"],
                           {OPEN_RESULT_REQUEST})
    /\ _model' = model
    /\ _local_dataset' = local_dataset
    /\ UNCHANGED <<datasetVars, hook, view, last, indexVars>>

\* Events.<topic>.value.notify(payload) by the UI, and all it causes
Published(topic, payload) ==
    [seq |-> last.seq + 1, topic |-> topic, payload |-> payload]
        @@ Event_notify(observers[topic], payload, NoEffects)

PublishSearchQueryUpdate(query) ==
    /\ last.seq < MaxPublishes
    /\ last' = Published(SEARCH_QUERY_UPDATE, query)
    /\ UNCHANGED <<datasetVars, hook, view, instance, _model, _local_dataset,
                   observers, handles, indexVars>>

PublishOpenResultRequest(doc_id) ==
    /\ last.seq < MaxPublishes
    /\ last' = Published(OPEN_RESULT_REQUEST, doc_id)
    /\ UNCHANGED <<datasetVars, hook, view, instance, _model, _local_dataset,
                   observers, handles, indexVars>>

InitPresenter ==
    /\ PresenterIdle
    /\ fs = PresenterDisk
    /\ downloaded = NoDownload
    /\ ret = NoCall
    /\ hook = NoCall
    /\ view = NoCall
    /\ IndexIdle

NextPresenter ==
    \/ \E m \in Models, d \in DatasetArgs : Presenter(m, d)
    \/ \E q \in QueryViews : PublishSearchQueryUpdate(q)
    \/ \E id \in LookupIds : PublishOpenResultRequest(id)

SpecPresenter == InitPresenter /\ [][NextPresenter]_vars

----------------------------------------------------------------------------
(* populate_index, step by step *)

\* populate_index(index_dir, local_file, remote_url): the call, up to the
\* schema
populate_index(local_file, remote_url) ==
    /\ run.pc \in {"idle", "done", "failed"}
    /\ run.n < MaxRuns
    /\ run' = [NoRun EXCEPT !.pc = "create_index", !.n = run.n + 1,
                            !.local_file = local_file,
                            !.remote_url = remote_url,
                            !.prior = Len(index.docs)]
    /\ UNCHANGED <<datasetVars, hook, view, presenterVars, index>>

\* ix = create_index(index_dir, schema)
CreateIndex ==
    /\ run.pc = "create_index"
    /\ index' = create_index(index)
    /\ run' = [run EXCEPT !.pc = "writer"]
    /\ UNCHANGED <<datasetVars, hook, view, presenterVars>>

\* with io.StringIO() as ram_storage, ix.writer() as writer
OpenWriter ==
    /\ run.pc = "writer"
    /\ run' = [run EXCEPT !.pc = "get_dataset", !.pending = <<>>]
    /\ UNCHANGED <<datasetVars, hook, view, presenterVars, index>>

\* ix.writer() raises: the index is locked by another writer
OpenWriterFails ==
    /\ run.pc = "writer"
    /\ run' = [run EXCEPT !.pc = "failed", !.failedAt = "writer"]
    /\ UNCHANGED <<datasetVars, hook, view, presenterVars, index>>

\* storage = get_dataset(local_file, remote_url, ram_storage) and the
\* csv.DictReader over it; an exception leaves the with block
AcquireDataset(r) ==
    /\ run.pc = "get_dataset"
    /\ LET out == get_dataset(run.local_file, run.remote_url, StringIO(<<>>), fs, r)
       IN  /\ fs' = out.fs
           /\ downloaded' = DownloadedAfter(run.local_file, run.remote_url, out)
           /\ IF out.kind = "ok"
              THEN /\ run' = [run EXCEPT !.pc = "add_document",
                                         !.acquired = TRUE,
                                         !.rows = DictReader(SplitLines(out.value.buf))]
                   /\ UNCHANGED index
              ELSE /\ run' = [run EXCEPT !.pc = "failed",
                                         !.failedAt = "get_dataset",
                                         !.pending = <<>>]
                   /\ index' = [index EXCEPT
                                    !.docs = writer_exit(index.docs, run.pending, TRUE)]
    /\ UNCHANGED <<ret, hook, view, presenterVars>>

\* writer.add_document(**schema.get_document_logic_view(row)) for the next row
AddDocument ==
    /\ run.pc = "add_document"
    /\ run.k < Len(run.rows)
    /\ run' = [run EXCEPT !.k = run.k + 1,
                          !.pending = Append(run.pending,
                                             DocsOf(run.n, run.rows)[run.k + 1])]
    /\ UNCHANGED <<datasetVars, hook, view, presenterVars, index>>

\* add_document raises (the writer cannot take the document): the with
\* block is left by the exception
AddDocumentFails ==
    /\ run.pc = "add_document"
    /\ run.k < Len(run.rows)
    /\ run' = [run EXCEPT !.pc = "failed", !.failedAt = "add_document",
                          !.pending = <<>>]
    /\ index' = [index EXCEPT !.docs = writer_exit(index.docs, run.pending, TRUE)]
    /\ UNCHANGED <<datasetVars, hook, view, presenterVars>>

\* the rows are exhausted and the with block is left normally
CommitWriter ==
    /\ run.pc = "add_document"
    /\ run.k = Len(run.rows)
    /\ index' = [index EXCEPT !.docs = writer_exit(index.docs, run.pending, FALSE)]
    /\ run' = [run EXCEPT !.pc = "close", !.pending = <<>>]
    /\ UNCHANGED <<datasetVars, hook, view, presenterVars>>

\* ix.close()
CloseIndex ==
    /\ run.pc = "close"
    /\ run' = [run EXCEPT !.pc = "done"]
    /\ UNCHANGED <<datasetVars, hook, view, presenterVars, index>>

\* the index directory before the first run: missing, empty, or holding a
\* document of an earlier build
StartIndexes ==
    {[dir |-> FALSE, docs |-> <<>>], [dir |-> TRUE, docs |-> <<>>],
     [dir |-> TRUE, docs |-> <<OldDoc>>]}

InitIndex ==
    /\ index \in StartIndexes
    /\ run = NoRun
    /\ fs \in StartDisks
    /\ downloaded = NoDownload
    /\ ret = NoCall
    /\ hook = NoCall
    /\ view = NoCall
    /\ PresenterIdle

NextIndex ==
    \/ \E u \in {NoneVal, Url} : populate_index("f1", u)
    \/ CreateIndex
    \/ OpenWriter
    \/ OpenWriterFails
    \/ \E r \in ResponsesFor(run.remote_url) : AcquireDataset(r)
    \/ AddDocument
    \/ AddDocumentFails
    \/ CommitWriter
    \/ CloseIndex

SpecIndex == InitIndex /\ [][NextIndex]_vars

----------------------------------------------------------------------------
(* Claims about placerank.dataset, checked under SpecDataset *)

\* C2: a get_dataset with both a remote URL and a local file returns a buffer
\* holding the downloaded text T, and a following get_dataset of that local
\* file with no remote URL returns a buffer with exactly the same content.
C2_RoundTripIdentical ==
    /\ (/\ ret.op = "get_dataset"
        /\ Truthy(ret.remote_url) /\ Truthy(ret.local_file)
        /\ ret.storage = StringIO(<<>>)
        /\ ret.out.kind = "ok")
           => \A r \in ret.resp : ret.out.value.buf = r.content.data
    /\ (/\ ret.op = "get_dataset"
        /\ ~Truthy(ret.remote_url)
        /\ ret.out.kind = "ok")
           => \A t \in downloaded[ret.local_file] : ret.out.value.buf = t

\* C3: for every non-success response with status code c, download_dataset
\* fails with ConnectionError reporting c, and the destination buffer is
\* left as it was.
C3_ConnectionErrorWithCode ==
    (ret.op = "download_dataset" /\ ~ret.resp.ok)
        => /\ ret.out.kind = "ConnectionError"
           /\ ret.out.code = {ret.resp.status_code}
           /\ ret.out.storage = ret.storage

\* C4: a get_dataset with no remote URL and a local file that is absent or
\* not a file on disk fails with RuntimeError (InvalidInput), issues no GET
\* and changes neither the disk nor the passed storage.
C4_InvalidInputRejected ==
    [][(/\ ret'.op = "get_dataset"
        /\ ~Truthy(ret'.remote_url)
        /\ (~Truthy(ret'.local_file) \/ ~isfile(fs, ret'.local_file)))
           => /\ ret'.out.kind = "RuntimeError"
              /\ ret'.out.gets = 0
              /\ ret'.out.storage = ret'.storage
              /\ fs' = fs]_vars

\* C4's case: no remote URL, a path with no file behind it, a used storage
C4_Witness ==
    /\ ret.op = "get_dataset"
    /\ ret.remote_url = NoneVal
    /\ ret.local_file = "f1" /\ fs["f1"].kind = "absent"
    /\ ret.storage.buf # <<>>
    /\ ret.out.kind = "RuntimeError"

\* the records of the file at path whose id column equals id, in file order
Matching(path, id) ==
    SelectSeq(DictReader(SplitLines(read_file(fs, path).data)),
              LAMBDA r : IdCol \in DOMAIN r /\ r[IdCol] = id)

ViewOf(record) == <<record[IdCol], record[NameCol]>>

\* C5: load_page returns the DocumentView of the first row, in file order,
\* whose id equals the identifier, for every file with a matching row.
C5_FirstMatchReturned ==
    (/\ ret.op = "load_page"
     /\ isfile(fs, ret.local_dataset)
     /\ Matching(ret.local_dataset, ret.id) # <<>>)
        => /\ ret.out.kind = "ok"
           /\ ret.out.value = ViewOf(Matching(ret.local_dataset, ret.id)[1])

\* C5 as amended: the last row, in file order, whose id equals the identifier
C5_LastMatchReturned ==
    (/\ ret.op = "load_page"
     /\ isfile(fs, ret.local_dataset)
     /\ Matching(ret.local_dataset, ret.id) # <<>>)
        => /\ ret.out.kind = "ok"
           /\ ret.out.value =
                  ViewOf(Matching(ret.local_dataset, ret.id)
                             [Len(Matching(ret.local_dataset, ret.id))])

\* C5's case: two rows share the id and differ elsewhere
C5_Witness ==
    /\ ret.op = "load_page"
    /\ ret.out.kind = "ok"
    /\ isfile(fs, ret.local_dataset)
    /\ Len(Matching(ret.local_dataset, ret.id)) = 2
    /\ ViewOf(Matching(ret.local_dataset, ret.id)[1])
           # ViewOf(Matching(ret.local_dataset, ret.id)[2])

----------------------------------------------------------------------------
(* Claim about the line-break cleaning, checked under SpecClean *)

\* C6: the cleaning is idempotent: a second application changes nothing
C6_CleanIdempotent == view.n >= 2 => view.page = view.prev

\* every "<" of the text opens a line-break tag
EveryLtOpensTag(s) ==
    \A i \in 1..Len(s) : s[i] = "<" => line_break_match(s, i) # 0

\* C6 as amended: the cleaning is idempotent on every DocumentView in whose
\* string fields every "<" opens a line-break tag (<, \s*, br, \s*, an
\* optional /, >)
C6_CleanIdempotentOnTags ==
    (/\ view.n >= 2
     /\ \A i \in 1..Len(view.orig) :
            IsStr(view.orig[i]) => EveryLtOpensTag(view.orig[i]))
        => view.page = view.prev

\* C6's case: a field of two tags, cleaned twice
C6_Witness ==
    /\ view.n = 2
    /\ view.orig[1] = <<"<", "b", "r", ">", "<", "b", "r", ">">>
    /\ view.page = view.prev
    /\ view.page[1] = <<"\n", "\n">>

----------------------------------------------------------------------------
(* Claim about the tolerant-retrieval mock, checked under SpecModels *)

\* C7: expand(q) on a TolerantRetrievalMock object returns exactly q and
\* raises nothing, for every q
C7_MockExpandIdentity ==
    (hook.op = "expand" /\ hook.on = "object")
        => /\ hook.out.kind = "ok"
           /\ hook.out.value = hook.query

----------------------------------------------------------------------------
(* Claims about the presenter, checked under SpecPresenter *)

\* C1: every construction returns the same instance, and the instance holds
\* the model and the dataset path of the first construction
C1_FirstConstructionWins ==
    handles # <<>>
        => /\ \A i \in 1..Len(handles) : handles[i].handle = handles[1].handle
           /\ _model = handles[1].model
           /\ _local_dataset = handles[1].local_dataset

\* C8: after one or more constructions, a publish runs the presenter's
\* handler exactly once; for a search-query-update the held model's search
\* is called once with the query and one search-results-update event with
\* its result is published
C8_HandlerRunsOncePerPublish ==
    [][(last'.seq # last.seq /\ handles # <<>>)
           => /\ last'.runs = 1
              /\ last'.topic = SEARCH_QUERY_UPDATE
                    => /\ last'.searches =
                              <<[model |-> _model, query |-> last'.payload]>>
                       /\ last'.published =
                              <<[topic |-> SEARCH_RESULTS_UPDATE,
                                 payload |-> IRModel_search(_model, last'.payload)]>>]_vars

\* C9: an open-result-request for an id no row of the local dataset has
\* fails with IndexError (NotFound) at the publisher, publishes no
\* open-result event and leaves the presenter's model, dataset path and
\* observer bindings as they were
C9_NotFoundPropagates ==
    [][(/\ last'.seq # last.seq
        /\ last'.topic = OPEN_RESULT_REQUEST
        /\ handles # <<>>
        /\ isfile(fs, _local_dataset)
        /\ Matching(_local_dataset, last'.payload) = <<>>)
           => /\ last'.raised = "IndexError"
              /\ last'.published = <<>>
              /\ UNCHANGED <<instance, _model, _local_dataset, observers>>]_vars

\* C9's case: the id "3" is requested and the publish ended in IndexError
C9_Witness ==
    /\ handles # <<>>
    /\ last.topic = OPEN_RESULT_REQUEST
    /\ last.payload = <<"3">>
    /\ last.raised = "IndexError"
    /\ last.runs = 1
    /\ last.published = <<>>

----------------------------------------------------------------------------
(* Claim about populate_index, checked under SpecIndex *)

\* C10: at every step of a run after create_index the committed documents
\* are none, or exactly one per dataset row of this run; a run that failed
\* in get_dataset or add_document has committed none and the earlier
\* contents are gone
C10_AllOrNothing ==
    run.pc \notin {"idle", "create_index"}
        => /\ \/ index.docs = <<>>
              \/ run.acquired /\ index.docs = DocsOf(run.n, run.rows)
           /\ (run.pc = "failed" /\ run.failedAt \in {"get_dataset", "add_document"})
                  => index.docs = <<>>

\* C10's case: the index held documents, one document of this run was
\* added, and the next add_document failed
C10_Witness ==
    /\ run.pc = "failed"
    /\ run.failedAt = "add_document"
    /\ run.prior > 0
    /\ run.k > 0
    /\ index.docs = <<>>

====
